---- MODULE Spec2Model ----
(***************************************************************************)
(* DBClientNode (src/src/db_client/db_client_node.py): the command         *)
(* handlers, the TTL index reconciler and the backup worker, over a model  *)
(* of the MongoDB store they call.                                         *)
(*                                                                         *)
(* Names (collections, snapshots, file stems) are sequences of             *)
(* underscore-free segments: <<"a","b">> is the string "a_b".  Joining     *)
(* with "_" is \o, and str.split('_', 1)[1] is Tail.                       *)
(***************************************************************************)
EXTENDS Integers, Sequences, FiniteSets, TLC

VARIABLES
    connected,       \* self.connected
    client,          \* self.client: "none", "open" or "closed"
    database,        \* self.database: "none", or the state of the client behind it
    status,          \* self.status
    backup_running,  \* self.backup_running
    backup_thread,   \* self.backup_thread: index in workers of the latest thread, 0 for None
    data_ttl_days,   \* self.data_ttl_days
    db,              \* the store: collection name -> [docs, indexes]
    storeUp,         \* whether the MongoDB server is reachable
    nextId,          \* next ObjectId the store generates
    files,           \* the backups/ directory: file stem -> serialized documents
    clock,           \* wall clock, in whole seconds
    cur,             \* the inbound message of the last handler invocation
    outbox,          \* messages sent by the latest handler invocation or backup
    storeLog,        \* store operations issued by the latest handler invocation
    ttlLog,          \* calls of _ensure_ttl_index made directly (reconciler runs)
    hpc,             \* concurrent handler threads: position of each
    hloc,            \* concurrent handler threads: locals of each
    workers,         \* backup worker threads ever started: position and cycle of each
    mpc,             \* the thread calling start()/stop(): position
    running          \* executions of _perform_backup in flight, by who runs them

vars == <<connected, client, database, status, backup_running, backup_thread,
          data_ttl_days, db, storeUp, nextId, files, clock, cur, outbox, storeLog,
          ttlLog, hpc, hloc, workers, mpc, running>>

svcVars == <<connected, client, database, status, backup_running, backup_thread,
             data_ttl_days>>

storeVars == <<db, storeUp, nextId>>

fsVars == <<files, clock>>

ioVars == <<cur, outbox, storeLog>>

threadVars == <<hpc, hloc, workers, mpc, running>>

(***************************************************************************)
(* Bounds of the model.                                                    *)
(***************************************************************************)
MaxDocs == 1         \* documents the store generates identifiers for
MaxCalls == 2        \* reconciler runs recorded in ttlLog
MaxHandlers == 3     \* concurrent handler threads (N of the concurrency claim)
MaxWorkers == 2      \* backup worker threads ever started
MaxClock == 1        \* the wall clock runs 0..MaxClock
MaxNameLen == 3

(***************************************************************************)
(* Program constants.                                                      *)
(***************************************************************************)
SecondsPerDay == 86400
MasterCorePort == 14551

DefaultRetention == 7             \* config data_ttl_days, when it is not given
Retentions == {1, DefaultRetention}
None == "None"                    \* Python None: the key is absent from the payload

TtlIndexName == "created_at_1"
TtlField == "created_at"

(***************************************************************************)
(* The store (pymongo over MongoDB), as the code uses it.                  *)
(* An index is [name, key, ttl, expireAfterSeconds]; a collection exists   *)
(* when its name is in DOMAIN db.                                          *)
(***************************************************************************)
IdIndex == [name |-> "_id_", key |-> "_id", ttl |-> FALSE, expireAfterSeconds |-> 0]

EmptyDb == [c \in {} |-> 0]

EmptyColl == [docs |-> <<>>, indexes |-> {IdIndex}]

Put(f, k, v) == [x \in DOMAIN f \cup {k} |-> IF x = k THEN v ELSE f[x]]

Drop(f, k) == [x \in DOMAIN f \ {k} |-> f[x]]

\* collection.list_indexes(): empty for a collection that does not exist
ListIndexes(d, c) == IF c \in DOMAIN d THEN d[c].indexes ELSE {}

\* a collection comes into existence on its first write or index creation
Materialize(d, c) == IF c \in DOMAIN d THEN d ELSE Put(d, c, EmptyColl)

\* collection.create_index(key, expireAfterSeconds=secs, name=name):
\* a no-op when the identical index exists, an OperationFailure when another
\* index has the same name or the same key pattern, otherwise the index is built.
StoreCreateIndex(d, c, name, key, secs) ==
    LET new == [name |-> name, key |-> key, ttl |-> TRUE, expireAfterSeconds |-> secs]
        idxs == ListIndexes(d, c)
    IN  IF new \in idxs
        THEN [ok |-> TRUE, db |-> d]
        ELSE IF \E i \in idxs : i.name = name \/ i.key = key
        THEN [ok |-> FALSE, db |-> d]
        ELSE [ok |-> TRUE,
              db |-> Put(d, c, [Materialize(d, c)[c] EXCEPT !.indexes = @ \cup {new}])]

\* database.command({"collMod": c, "index": {"keyPattern": {key: 1},
\* "expireAfterSeconds": secs}}): changes the expiry of the index on that key
\* pattern; an OperationFailure when the collection or the index is missing.
StoreCollMod(d, c, key, secs) ==
    IF c \in DOMAIN d /\ \E i \in d[c].indexes : i.key = key
    THEN [ok |-> TRUE,
          db |-> [d EXCEPT ![c].indexes =
                    {IF i.key = key
                     THEN [i EXCEPT !.ttl = TRUE, !.expireAfterSeconds = secs]
                     ELSE i : i \in @}]]
    ELSE [ok |-> FALSE, db |-> d]

\* database.drop_collection(c): succeeds whether or not the collection exists
StoreDropCollection(d, c) == Drop(d, c)

(***************************************************************************)
(* _ensure_ttl_index                                                       *)
(***************************************************************************)
\* line 505
ExpireAfterSeconds(days) == days * SecondsPerDay

\* the scan with the creation of a missing index left out
TtlPlanNoCreate(indexes, expire) ==
    IF \E i \in indexes : /\ i.name = TtlIndexName /\ i.ttl
                          /\ i.expireAfterSeconds # expire
    THEN "collMod"
    ELSE "keep"

\* lines 508-528: what the scan of the listed indexes decides
TtlPlan(indexes, expire) ==
    IF \E i \in indexes : i.name = TtlIndexName /\ i.ttl
    THEN IF \E i \in indexes : /\ i.name = TtlIndexName /\ i.ttl
                               /\ i.expireAfterSeconds # expire
         THEN "collMod"
         ELSE "keep"
    ELSE "create"

\* lines 515-534: the store call the decision leads to
TtlApply(d, c, plan, expire) ==
    CASE plan = "collMod" -> StoreCollMod(d, c, TtlField, expire)
      [] plan = "create"  -> StoreCreateIndex(d, c, TtlIndexName, TtlField, expire)
      [] OTHER            -> [ok |-> TRUE, db |-> d]

\* the call answering True whenever it reached the store
EnsureTtlIndexLenient(conn, up, d, c, days) ==
    IF ~conn
    THEN [ret |-> FALSE, db |-> d, ops |-> <<>>]
    ELSE IF ~up
    THEN [ret |-> FALSE, db |-> d, ops |-> <<"list_indexes">>]
    ELSE LET expire == ExpireAfterSeconds(days)
             plan == TtlPlan(ListIndexes(d, c), expire)
             r == TtlApply(d, c, plan, expire)
         IN  [ret |-> TRUE, db |-> r.db,
              ops |-> IF plan = "keep" THEN <<"list_indexes">>
                      ELSE <<"list_indexes", plan>>]

\* the whole call: [ret, db, ops]; every exception is caught and gives False
EnsureTtlIndex(conn, up, d, c, days) ==
    IF ~conn
    THEN [ret |-> FALSE, db |-> d, ops |-> <<>>]
    ELSE IF ~up
    THEN [ret |-> FALSE, db |-> d, ops |-> <<"list_indexes">>]
    ELSE LET expire == ExpireAfterSeconds(days)
             plan == TtlPlan(ListIndexes(d, c), expire)
             r == TtlApply(d, c, plan, expire)
         IN  [ret |-> r.ok, db |-> r.db,
              ops |-> IF plan = "keep" THEN <<"list_indexes">>
                      ELSE <<"list_indexes", plan>>]

TtlIndexes(idxs) == {i \in idxs : i.ttl /\ i.key = TtlField}

(***************************************************************************)
(* Values shared by the specifications.                                    *)
(***************************************************************************)
C1Name == <<"c1">>

\* an optional payload field: has = FALSE is payload.get(key) returning None
Opt(v) == [has |-> TRUE, v |-> v]

NoStr == [has |-> FALSE, v |-> ""]

NoName == [has |-> FALSE, v |-> <<>>]

NoInt == [has |-> FALSE, int |-> TRUE, v |-> 0]

IntVal(n) == [has |-> TRUE, int |-> TRUE, v |-> n]

StrVal == [has |-> TRUE, int |-> FALSE, v |-> 0]     \* a string where a number is due

\* Python truthiness of payload.get(key): None, "" and {} are false
TruthyName(o) == o.has /\ o.v # <<>>

TruthyStr(o) == o.has /\ o.v # "" /\ o.v # "empty"

NoMsg == [handler |-> None, source |-> None, addr |-> <<None, 0>>,
          command |-> None, collection |-> NoName, collection_name |-> NoName,
          data |-> NoStr, request_id |-> NoStr, limit |-> NoInt, skip |-> NoInt,
          backup_name |-> NoName]

NoFiles == [f \in {} |-> <<>>]

NoThreads == [t \in {} |-> 0]

(***************************************************************************)
(* SpecTTL: the reconciler run on its own, from every index layout a       *)
(* collection can have, with the retention changed between runs.           *)
(***************************************************************************)
StartExpiries == {ExpireAfterSeconds(r) : r \in Retentions} \cup {3600}

TtlIdx(name, secs) ==
    [name |-> name, key |-> TtlField, ttl |-> TRUE, expireAfterSeconds |-> secs]

PlainIdx(name) ==
    [name |-> name, key |-> TtlField, ttl |-> FALSE, expireAfterSeconds |-> 0]

\* the index on created_at, if any, a collection starts with
StartIndexSets ==
    {{}} \cup {{TtlIdx(TtlIndexName, e)} : e \in StartExpiries}
         \cup {{PlainIdx(TtlIndexName)}}
         \cup {{TtlIdx("expiry_idx", e)} : e \in StartExpiries}

StartDbs ==
    {EmptyDb} \cup {Put(EmptyDb, C1Name, [docs |-> <<>>, indexes |-> {IdIndex} \cup x])
                    : x \in StartIndexSets}

InitTTL ==
    /\ connected \in BOOLEAN
    /\ client = IF connected THEN "open" ELSE "none"
    /\ database = client
    /\ status = IF connected THEN "RUNNING" ELSE "ERROR"
    /\ backup_running = FALSE
    /\ backup_thread = 0
    /\ data_ttl_days = DefaultRetention
    /\ db \in StartDbs
    /\ storeUp \in BOOLEAN
    /\ nextId = 0
    /\ files = NoFiles
    /\ clock = 0
    /\ cur = NoMsg
    /\ outbox = <<>>
    /\ storeLog = <<>>
    /\ ttlLog = <<>>
    /\ hpc = NoThreads
    /\ hloc = NoThreads
    /\ workers = <<>>
    /\ mpc = "idle"
    /\ running = NoThreads

\* one call of _ensure_ttl_index(c1)
TtlRun ==
    /\ Len(ttlLog) < MaxCalls
    /\ LET r == EnsureTtlIndex(connected, storeUp, db, C1Name, data_ttl_days)
       IN  /\ db' = r.db
           /\ ttlLog' = Append(ttlLog, [days |-> data_ttl_days, ret |-> r.ret,
                                        before |-> ListIndexes(db, C1Name),
                                        after |-> ListIndexes(r.db, C1Name)])
    /\ UNCHANGED <<svcVars, storeUp, nextId, fsVars, ioVars, threadVars>>

\* the service is constructed again with another data_ttl_days (line 52)
TtlReconfigure ==
    /\ \E d \in Retentions \ {data_ttl_days} : data_ttl_days' = d
    /\ UNCHANGED <<connected, client, database, status, backup_running, backup_thread,
                   storeVars, fsVars, ioVars, ttlLog, threadVars>>

NextTTL == TtlRun \/ TtlReconfigure

SpecTTL == InitTTL /\ [][NextTTL]_vars

\* consecutive reconciler runs k, k+1 on a connected service with the store up
TtlPair(k) == k \in 1..(Len(ttlLog) - 1) /\ connected /\ storeUp

\* C6: two reconciler runs in a row with the same retention leave exactly one
\* TTL index on created_at, and the second run leaves the index set as the
\* first left it, whatever indexes the collection started with.
C6_TwiceSameRetention ==
    \A k \in 1..(Len(ttlLog) - 1) :
        (TtlPair(k) /\ ttlLog[k].days = ttlLog[k + 1].days) =>
            /\ Cardinality(TtlIndexes(ttlLog[k + 1].after)) = 1
            /\ ttlLog[k + 1].after = ttlLog[k].after

\* C7: reconciler runs with retention R1 then R2 # R1 on the same collection
\* leave exactly one TTL index on created_at, expiring after R2*86400 seconds.
C7_RetentionChangeConverges ==
    \A k \in 1..(Len(ttlLog) - 1) :
        (TtlPair(k) /\ ttlLog[k].days # ttlLog[k + 1].days) =>
            /\ Cardinality(TtlIndexes(ttlLog[k + 1].after)) = 1
            /\ \A i \in TtlIndexes(ttlLog[k + 1].after) :
                   i.expireAfterSeconds = ttlLog[k + 1].days * SecondsPerDay

\* the indexes of a listing whose key is created_at
OnTtlField(idxs) == {i \in idxs : i.key = TtlField}

\* C25: whenever _ensure_ttl_index returns True, whatever index the
\* collection had on created_at before (none, a TTL index named created_at_1
\* with any expiry, a non-TTL index named created_at_1, a TTL index under
\* another name), the collection then has exactly one index on created_at,
\* and it is a TTL index expiring after data_ttl_days*86400 seconds.
C25_TrueMeansPolicyIndex ==
    \A k \in 1..Len(ttlLog) :
        ttlLog[k].ret =>
            /\ Cardinality(OnTtlField(ttlLog[k].after)) = 1
            /\ \A i \in OnTtlField(ttlLog[k].after) :
                   i.ttl /\ i.expireAfterSeconds = ttlLog[k].days * SecondsPerDay

\* a run that found created_at_1 expiring after an hour returned True and
\* left it expiring after the retention
C25_Witness ==
    \E k \in 1..Len(ttlLog) :
        /\ ttlLog[k].ret
        /\ TtlIdx(TtlIndexName, 3600) \in ttlLog[k].before
        /\ ttlLog[k].after = {IdIndex, TtlIdx(TtlIndexName, ExpireAfterSeconds(ttlLog[k].days))}

(***************************************************************************)
(* Documents, serialization and the remaining store calls.                 *)
(***************************************************************************)
\* the document insert_one stores: _id is an ObjectId, created_at a datetime
NewDoc(id, data) == [id |-> id, oid |-> TRUE, data |-> data, created_at |-> "datetime"]

\* str() of an ObjectId or a datetime (json.dump default=str, _convert_objectids)
Stringify(doc) ==
    [doc EXCEPT !.oid = FALSE,
                !.created_at = IF @ = "datetime" THEN "str" ELSE @]

StringifyAll(docs) == [i \in 1..Len(docs) |-> Stringify(docs[i])]

\* collection.insert_one(doc): creates the collection when it is missing
StoreInsertOne(d, c, doc) ==
    Put(d, c, [Materialize(d, c)[c] EXCEPT !.docs = Append(@, doc)])

SameId(a, b) == a.id = b.id /\ a.oid = b.oid

\* collection.find(): the documents in natural order
StoreFind(d, c) == IF c \in DOMAIN d THEN d[c].docs ELSE <<>>

RECURSIVE InsertEach(_, _, _)
InsertEach(d, c, docs) ==
    IF docs = <<>>
    THEN [ok |-> TRUE, db |-> d]
    ELSE IF \E i \in 1..Len(StoreFind(d, c)) : SameId(StoreFind(d, c)[i], Head(docs))
    THEN [ok |-> FALSE, db |-> d]
    ELSE InsertEach(StoreInsertOne(d, c, Head(docs)), c, Tail(docs))

\* collection.insert_many(docs), ordered: an empty list is refused, and the
\* first duplicate _id stops the insertion with the earlier documents kept
StoreInsertMany(d, c, docs) ==
    IF docs = <<>> THEN [ok |-> FALSE, db |-> d] ELSE InsertEach(d, c, docs)

(***************************************************************************)
(* Inbound messages.                                                       *)
(***************************************************************************)
MasterCoreHost == "master_core_host"

Sources == {"master_core", "node_a"}

\* the address a packet of that sender arrives from (an ephemeral port for
\* the control plane)
ArrivalAddr(src) ==
    IF src = "master_core" THEN <<MasterCoreHost, 50000>> ELSE <<"peer_host", 14553>>

CollArgs == {NoName, Opt(<<>>), Opt(C1Name)}

DataArgs == {NoStr, Opt("empty"), Opt("d1")}

RidArgs == {NoStr, Opt(""), Opt("r1")}

\* <<skip, limit>> of a query
PageArgs ==
    {<<NoInt, NoInt>>, <<IntVal(1), IntVal(1)>>, <<StrVal, NoInt>>,
     <<NoInt, IntVal(0)>>, <<IntVal(-1), NoInt>>}

BaseMsg(h, cmd, src) ==
    [NoMsg EXCEPT !.handler = h, !.command = cmd, !.source = src,
                  !.addr = ArrivalAddr(src)]

InsertMsgs ==
    {[BaseMsg("command", "insert_one", s) EXCEPT
        !.collection = c, !.data = d, !.request_id = r]
     : s \in Sources, c \in CollArgs, d \in DataArgs, r \in RidArgs}

QueryMsgs ==
    {[BaseMsg(h[1], h[2], s) EXCEPT
        !.collection = c, !.request_id = r, !.skip = pg[1], !.limit = pg[2]]
     : h \in {<<"command", "query_data">>, <<"query_data", None>>},
       s \in Sources, c \in CollArgs, r \in RidArgs, pg \in PageArgs}

\* create_collection / drop_collection read the key "collection_name"
CollectionMsgs(cmd) ==
    {[BaseMsg("command", cmd, s) EXCEPT !.collection = c, !.collection_name = n]
     : s \in Sources, c \in {NoName, Opt(C1Name)}, n \in CollArgs}

PlainMsgs(h, cmd) == {BaseMsg(h, cmd, s) : s \in Sources}

(***************************************************************************)
(* Outbound messages.                                                      *)
(***************************************************************************)
DefaultLimit == 100

NoPayload ==
    [status |-> None, error_type |-> None, request_id |-> NoStr, results |-> <<>>,
     count |-> 0, inserted_id |-> NoInt, backup_completed |-> <<>>]

\* a RESPONSE NodeMessage handed to _send_message(response, to)
Response(m, to, payload) ==
    [type |-> "RESPONSE", to |-> to, destination |-> m.source, payload |-> payload]

\* send_to_master_core(MessageType.STATUS, {"backup_completed": name}, ...)
BackupCompleted(name) ==
    [type |-> "STATUS", to |-> <<MasterCoreHost, 14550>>, destination |-> "master_core",
     payload |-> [NoPayload EXCEPT !.backup_completed = name]]

\* lines 308-310, 345-347, 378-380, 411-413: request_id = payload.get("request_id");
\* if request_id: payload["request_id"] = request_id
EchoRequestId(m) == IF TruthyStr(m.request_id) THEN m.request_id ELSE NoStr

\* lines 324-332, 361-365, 394-398, 427-431
QueryReplyAddr(m) ==
    IF m.source = "master_core" THEN <<MasterCoreHost, MasterCorePort>> ELSE m.addr

\* lines 226, 240: the insert_one replies go to the arrival address
InsertReplyAddr(m) == m.addr

\* lines 216-225, 230-239: the insert_one payloads carry status and
\* inserted_id / message only
InsertRequestId(m) == NoStr

\* whether a call on self.database reaches the store: the server is up and the
\* client is open, or it was closed and the driver reopens it (reopen)
Reach(reopen) == storeUp /\ (database = "open" \/ (database = "closed" /\ reopen))

\* the driver's answers to a call on a closed client
Reopens == IF database = "closed" THEN BOOLEAN ELSE {FALSE}

\* what one handler invocation did: the store, the files, what it sent, the
\* store operations it issued
Outcome(d, n, f, out, log) == [db |-> d, nextId |-> n, files |-> f, out |-> out, log |-> log]

Nothing == Outcome(db, nextId, files, <<>>, <<>>)

(***************************************************************************)
(* _handle_db_command, command insert_one (lines 200-242)                  *)
(***************************************************************************)
\* line 222: str(result.inserted_id)
StrOf(id) == [has |-> TRUE, int |-> FALSE, v |-> id]

InsertSuccess(m, id) ==
    Response(m, InsertReplyAddr(m),
             [NoPayload EXCEPT !.status = "success", !.inserted_id = StrOf(id),
                               !.request_id = InsertRequestId(m)])

InsertError(m) ==
    Response(m, InsertReplyAddr(m),
             [NoPayload EXCEPT !.status = "error", !.request_id = InsertRequestId(m)])

\* the insert given up when the reconciliation has failed
InsertOneStrict(m, reopen) ==
    LET c == m.collection.v
        e == EnsureTtlIndex(connected, Reach(reopen), db, c, data_ttl_days)
    IN  IF ~(TruthyName(m.collection) /\ TruthyStr(m.data))
        THEN Nothing
        ELSE IF database = "none" \/ ~e.ret
        THEN Outcome(e.db, nextId, files, <<InsertError(m)>>, e.ops)
        ELSE IF ~Reach(reopen)
        THEN Outcome(e.db, nextId, files, <<InsertError(m)>>, e.ops \o <<"insert_one">>)
        ELSE Outcome(StoreInsertOne(e.db, c, NewDoc(nextId, m.data.v)), nextId + 1, files,
                     <<InsertSuccess(m, nextId)>>, e.ops \o <<"insert_one">>)

InsertOne(m, reopen) ==
    LET c == m.collection.v
        e == EnsureTtlIndex(connected, Reach(reopen), db, c, data_ttl_days)
    IN  IF ~(TruthyName(m.collection) /\ TruthyStr(m.data))
        THEN Nothing
        ELSE IF database = "none"
        THEN Outcome(e.db, nextId, files, <<InsertError(m)>>, e.ops)
        ELSE IF ~Reach(reopen)
        THEN Outcome(e.db, nextId, files, <<InsertError(m)>>, e.ops \o <<"insert_one">>)
        ELSE Outcome(StoreInsertOne(e.db, c, NewDoc(nextId, m.data.v)), nextId + 1, files,
                     <<InsertSuccess(m, nextId)>>, e.ops \o <<"insert_one">>)

(***************************************************************************)
(* _handle_query_data (lines 247-432)                                      *)
(***************************************************************************)
QueryError(m, etype) ==
    Response(m, QueryReplyAddr(m),
             [NoPayload EXCEPT !.status = "error", !.error_type = etype,
                               !.request_id = EchoRequestId(m)])

\* cursor.skip(skip) when skip > 0, then cursor.limit(limit): limit 0 is no
\* limit, a negative limit is its absolute value
Paginate(docs, skip, limit) ==
    LET from == IF skip > 0 THEN skip ELSE 0
        n == IF limit = 0 THEN Len(docs) ELSE IF limit < 0 THEN -limit ELSE limit
        to == IF from + n < Len(docs) THEN from + n ELSE Len(docs)
    IN  SubSeq(docs, from + 1, to)

QuerySuccess(m, results) ==
    Response(m, QueryReplyAddr(m),
             [NoPayload EXCEPT !.status = "success", !.results = StringifyAll(results),
                               !.count = Len(results), !.request_id = EchoRequestId(m)])

QueryData(m, reopen) ==
    LET limit == IF m.limit.has THEN m.limit ELSE IntVal(DefaultLimit)
        skip == IF m.skip.has THEN m.skip ELSE IntVal(0)
        fail(etype, log) == Outcome(db, nextId, files, <<QueryError(m, etype)>>, log)
    IN  IF ~TruthyName(m.collection)
        THEN fail("validation_error", <<>>)            \* ValueError, line 263
        ELSE IF ~connected
        THEN fail("connection_error", <<>>)            \* ConnectionError, line 266
        ELSE IF ~skip.int \/ ~limit.int
        THEN fail("database_error", <<>>)              \* TypeError, lines 285-287
        ELSE IF ~Reach(reopen)
        THEN fail("database_error", <<"find">>)        \* a pymongo error, line 290
        ELSE Outcome(db, nextId, files,
                     <<QuerySuccess(m, Paginate(StoreFind(db, m.collection.v),
                                                skip.v, limit.v))>>,
                     <<"find">>)

(***************************************************************************)
(* _create_collection, _drop_collection, _get_database_stats               *)
(***************************************************************************)
\* lines 543-572, called with payload.get("collection_name") (line 195)
CreateCollection(m, reopen) ==
    IF ~connected \/ ~TruthyName(m.collection_name)
    THEN Nothing
    ELSE LET e == EnsureTtlIndex(connected, Reach(reopen), db, m.collection_name.v,
                                 data_ttl_days)
         IN  Outcome(e.db, nextId, files, <<>>, e.ops)

\* lines 574-598, called with payload.get("collection_name") (line 197)
DropCollection(m, reopen) ==
    IF ~connected \/ ~TruthyName(m.collection_name)
    THEN Nothing
    ELSE IF ~Reach(reopen)
    THEN Outcome(db, nextId, files, <<>>, <<"drop_collection">>)
    ELSE Outcome(StoreDropCollection(db, m.collection_name.v), nextId, files, <<>>,
                 <<"drop_collection">>)

\* lines 600-649: read-only, the statistics are returned to the dispatcher,
\* which drops them (line 199)
GetDatabaseStats(m, reopen) ==
    IF ~connected
    THEN Nothing
    ELSE IF ~Reach(reopen) \/ DOMAIN db = {}
    THEN Outcome(db, nextId, files, <<>>, <<"list_collection_names">>)
    ELSE Outcome(db, nextId, files, <<>>,
                 <<"list_collection_names", "count_documents", "list_indexes">>)

(***************************************************************************)
(* _perform_backup and _restore_backup                                     *)
(***************************************************************************)
\* lines 161-162: "backup_" + strftime("%Y%m%d_%H%M%S"), one name per second
SnapshotName(t) == <<"backup", "20240101", ToString(t)>>

\* line 174: f"{backup_name}_{collection_name}"
ArtifactStem(snap, c) == snap \o c

\* lines 168-176 for every collection at once
ExportAll(f, d, snap) ==
    [s \in DOMAIN f \cup {ArtifactStem(snap, c) : c \in DOMAIN d} |->
        IF \E c \in DOMAIN d : s = ArtifactStem(snap, c)
        THEN StringifyAll(d[CHOOSE c \in DOMAIN d : s = ArtifactStem(snap, c)].docs)
        ELSE f[s]]

\* lines 158-188, run without interruption
PerformBackup(reopen) ==
    IF database = "none"
    THEN Nothing                                        \* AttributeError, line 169
    ELSE IF ~Reach(reopen)
    THEN Outcome(db, nextId, files, <<>>, <<"list_collection_names">>)
    ELSE Outcome(db, nextId, ExportAll(files, db, SnapshotName(clock)),
                 <<BackupCompleted(SnapshotName(clock))>>,
                 IF DOMAIN db = {} THEN <<"list_collection_names">>
                 ELSE <<"list_collection_names", "find">>)

\* line 470: backup_dir.glob(f"{backup_name}_*.json")
MatchingArtifacts(f, name) ==
    {s \in DOMAIN f : Len(s) > Len(name) /\ SubSeq(s, 1, Len(name)) = name}

\* line 473: backup_file.stem.split('_', 1)[1]
RestoreTarget(stem) == Tail(stem)

\* lines 472-479 over the globbed files in the order the glob yields them;
\* the first exception ends the restore (line 483)
RECURSIVE RestoreFiles(_, _, _, _)
RestoreFiles(d, f, order, reach) ==
    IF order = <<>>
    THEN [db |-> d, log |-> <<>>]
    ELSE IF database = "none"
    THEN [db |-> d, log |-> <<>>]                       \* TypeError, line 478
    ELSE IF ~reach
    THEN [db |-> d, log |-> <<"insert_many">>]
    ELSE LET r == StoreInsertMany(d, RestoreTarget(Head(order)), f[Head(order)])
         IN  IF ~r.ok
             THEN [db |-> r.db, log |-> <<"insert_many">>]
             ELSE [db |-> RestoreFiles(r.db, f, Tail(order), reach).db,
                   log |-> <<"insert_many">>]

Orders(S) ==
    {o \in [1..Cardinality(S) -> S] : \A i, j \in 1..Cardinality(S) : o[i] = o[j] => i = j}

\* lines 464-484
RestoreBackup(name, order, reopen) ==
    LET r == RestoreFiles(db, files, order, Reach(reopen))
    IN  Outcome(r.db, nextId, files, <<>>, r.log)

(***************************************************************************)
(* Spec: the handlers, each invocation run to completion, on a service     *)
(* in any stage of its life.                                               *)
(***************************************************************************)
\* the fields start() and stop() leave behind: never started; started with
\* the connection refused (lines 121-124); started; stopped (lines 126-131)
Lifecycles ==
    {[connected |-> FALSE, client |-> "none", database |-> "none", status |-> "CREATED",
      backup_running |-> FALSE],
     [connected |-> FALSE, client |-> "open", database |-> "none", status |-> "ERROR",
      backup_running |-> FALSE],
     [connected |-> TRUE, client |-> "open", database |-> "open", status |-> "RUNNING",
      backup_running |-> TRUE],
     [connected |-> FALSE, client |-> "closed", database |-> "closed", status |-> "STOPPED",
      backup_running |-> FALSE]}

Init ==
    /\ \E l \in Lifecycles :
          /\ connected = l.connected
          /\ client = l.client
          /\ database = l.database
          /\ status = l.status
          /\ backup_running = l.backup_running
    /\ backup_thread = 0
    /\ data_ttl_days = DefaultRetention
    /\ db \in {EmptyDb, Put(EmptyDb, C1Name,
                             [docs |-> <<>>, indexes |-> {IdIndex, PlainIdx(TtlIndexName)}])}
    /\ storeUp \in BOOLEAN
    /\ nextId = 0
    /\ files = NoFiles
    /\ clock = 0
    /\ cur = NoMsg
    /\ outbox = <<>>
    /\ storeLog = <<>>
    /\ ttlLog = <<>>
    /\ hpc = NoThreads
    /\ hloc = NoThreads
    /\ workers = <<>>
    /\ mpc = "idle"
    /\ running = NoThreads

\* the handler invoked with message m ran to its end with outcome o
Handled(m, o) ==
    /\ cur = NoMsg
    /\ o.nextId <= MaxDocs
    /\ cur' = m
    /\ outbox' = o.out
    /\ storeLog' = o.log
    /\ db' = o.db
    /\ nextId' = o.nextId
    /\ files' = o.files
    /\ UNCHANGED <<svcVars, storeUp, clock, ttlLog, threadVars>>

\* _handle_db_command, lines 200-242
HandleInsertOne ==
    \E m \in InsertMsgs, reopen \in Reopens : Handled(m, InsertOne(m, reopen))

\* _handle_query_data, reached as the "query_data" handler or from
\* _handle_db_command (lines 243-245)
HandleQueryData ==
    \E m \in QueryMsgs, reopen \in Reopens : Handled(m, QueryData(m, reopen))

\* _handle_db_command, lines 194-195
HandleCreateCollection ==
    \E m \in CollectionMsgs("create_collection"), reopen \in Reopens :
        Handled(m, CreateCollection(m, reopen))

\* _handle_db_command, lines 196-197
HandleDropCollection ==
    \E m \in CollectionMsgs("drop_collection"), reopen \in Reopens :
        Handled(m, DropCollection(m, reopen))

\* _handle_db_command, lines 198-199
HandleGetStats ==
    \E m \in PlainMsgs("command", "get_stats"), reopen \in Reopens :
        Handled(m, GetDatabaseStats(m, reopen))

\* _handle_db_command with a command none of its branches names
HandleOtherCommand ==
    \E m \in PlainMsgs("command", "backup_database") \cup PlainMsgs("command", None) :
        Handled(m, Nothing)

\* _handle_backup, lines 454-456
HandleBackup ==
    \E m \in PlainMsgs("backup_database", None), reopen \in Reopens :
        Handled(m, PerformBackup(reopen))

RestoreMsgs ==
    {[BaseMsg("restore_database", None, s) EXCEPT !.backup_name = n]
     : s \in Sources,
       n \in {NoName, Opt(<<>>)} \cup {Opt(SnapshotName(t)) : t \in 0..MaxClock}}

\* _handle_restore, lines 458-462
HandleRestore ==
    \E m \in RestoreMsgs, reopen \in Reopens :
        IF ~TruthyName(m.backup_name)
        THEN Handled(m, Nothing)
        ELSE LET found == MatchingArtifacts(files, m.backup_name.v)
             IN  /\ \A s \in found : Len(RestoreTarget(s)) <= MaxNameLen
                 /\ \E order \in Orders(found) :
                        Handled(m, RestoreBackup(m.backup_name.v, order, reopen))

\* the handler has returned and the node waits for the next message
Returned ==
    /\ cur # NoMsg
    /\ cur' = NoMsg
    /\ outbox' = <<>>
    /\ storeLog' = <<>>
    /\ UNCHANGED <<svcVars, storeVars, fsVars, ttlLog, threadVars>>

\* a second passes
Tick ==
    /\ cur = NoMsg
    /\ clock < MaxClock
    /\ clock' = clock + 1
    /\ UNCHANGED <<svcVars, storeVars, files, ioVars, ttlLog, threadVars>>

Next ==
    \/ HandleInsertOne
    \/ HandleQueryData
    \/ HandleCreateCollection
    \/ HandleDropCollection
    \/ HandleGetStats
    \/ HandleOtherCommand
    \/ HandleBackup
    \/ HandleRestore
    \/ Returned
    \/ Tick

Spec == Init /\ [][Next]_vars

(***************************************************************************)
(* Claims about the handlers (Spec).                                       *)
(***************************************************************************)
\* the command a message asks for: payload.command, or the message type the
\* dedicated handlers are registered for
CommandOf(m) == IF m.handler = "command" THEN m.command ELSE m.handler

IsQuery(m) == CommandOf(m) = "query_data"

Responses == {outbox[i] : i \in {j \in 1..Len(outbox) : outbox[j].type = "RESPONSE"}}

\* C1: every handled command (create_collection, drop_collection, get_stats,
\* insert_one, query_data, backup_database, restore_database) has sent a RESPONSE
\* with status success or error by the time its handler finishes.
C1_EveryCommandAnswered ==
    CommandOf(cur) \in {"create_collection", "drop_collection", "get_stats", "insert_one",
                        "query_data", "backup_database", "restore_database"} =>
        \E r \in Responses : r.payload.status \in {"success", "error"}

\* C2: every RESPONSE carries the request_id of the inbound payload when the
\* payload supplied one, and no request_id when it supplied none.
C2_RequestIdEchoed ==
    \A r \in Responses : r.payload.request_id = cur.request_id

\* C3: a RESPONSE to a message whose source is master_core goes to
\* (master_core_host, 14551); a RESPONSE to any other source goes to the
\* address the message arrived from.
C3_ReplyAddressing ==
    \A r \in Responses :
        r.to = IF cur.source = "master_core"
               THEN <<MasterCoreHost, MasterCorePort>>
               ELSE cur.addr

\* the error_type the taxonomy gives a failed query: a missing or malformed
\* parameter is a validation error, a store that is not connected or not
\* reachable a connection error, anything else a database error
TaxonomyErrorType(m) ==
    IF ~TruthyName(m.collection) \/ (m.skip.has /\ ~m.skip.int)
                                 \/ (m.limit.has /\ ~m.limit.int)
    THEN "validation_error"
    ELSE IF ~connected \/ ~storeUp
    THEN "connection_error"
    ELSE "database_error"

\* C4: every error RESPONSE to a query carries the error_type of the taxonomy:
\* validation_error for a missing or malformed parameter, connection_error
\* when the store is not connected or unreachable, database_error otherwise.
C4_ErrorTaxonomy ==
    IsQuery(cur) =>
        \A r \in Responses :
            r.payload.status = "error" => r.payload.error_type = TaxonomyErrorType(cur)

\* C5: a query without a collection (missing or empty) gets exactly one
\* RESPONSE, an error of type validation_error that echoes the supplied
\* request_id verbatim, and the handler makes no store access.
C5_MissingCollectionRejected ==
    (IsQuery(cur) /\ ~TruthyName(cur.collection)) =>
        /\ Len(outbox) = 1
        /\ \A r \in Responses :
              /\ r.payload.status = "error"
              /\ r.payload.error_type = "validation_error"
              /\ r.payload.request_id = cur.request_id
        /\ Cardinality(Responses) = 1
        /\ storeLog = <<>>

(***************************************************************************)
(* SpecIns: MaxHandlers insert_one commands handled concurrently, each     *)
(* handler a thread whose store calls interleave with the others'.         *)
(***************************************************************************)
Handlers == 1..MaxHandlers

\* a well-formed insert_one: collection c1 and a non-empty document
GoodInserts == {m \in InsertMsgs : m.collection = Opt(C1Name) /\ m.data = Opt("d1")}

InitIns ==
    /\ connected = TRUE
    /\ client = "open"
    /\ database = "open"
    /\ status = "RUNNING"
    /\ backup_running = FALSE
    /\ backup_thread = 0
    /\ data_ttl_days \in Retentions
    /\ db = EmptyDb
    /\ storeUp = TRUE
    /\ nextId = 0
    /\ files = NoFiles
    /\ clock = 0
    /\ cur = NoMsg
    /\ outbox = <<>>
    /\ storeLog = <<>>
    /\ ttlLog = <<>>
    /\ hpc = [h \in Handlers |-> "list_indexes"]
    /\ hloc \in [Handlers -> [msg : {m \in GoodInserts : m.request_id = NoStr},
                              indexes : {{}}, raced : {FALSE}, sent : {<<>>}]]
    /\ workers = <<>>
    /\ mpc = "idle"
    /\ running = NoThreads

InsFrame == UNCHANGED <<svcVars, storeUp, fsVars, ioVars, ttlLog, workers, mpc, running>>

\* lines 499-508: the connected test and collection.list_indexes()
InsListIndexes(h) ==
    /\ hpc[h] = "list_indexes"
    /\ IF connected /\ Reach(FALSE)
       THEN /\ hpc' = [hpc EXCEPT ![h] = "reconcile"]
            /\ hloc' = [hloc EXCEPT ![h].indexes = ListIndexes(db, C1Name)]
       ELSE /\ hpc' = [hpc EXCEPT ![h] = "insert"]
            /\ hloc' = hloc
    /\ UNCHANGED <<db, nextId>>
    /\ InsFrame

\* lines 509-535: the scan of the listed indexes and the collMod or
\* create_index it leads to, on the store as it is by then
InsReconcile(h) ==
    /\ hpc[h] = "reconcile"
    /\ LET expire == ExpireAfterSeconds(data_ttl_days)
           plan == TtlPlan(hloc[h].indexes, expire)
       IN  /\ db' = IF Reach(FALSE) THEN TtlApply(db, C1Name, plan, expire).db ELSE db
           /\ hloc' = [hloc EXCEPT ![h].raced =
                          plan = "create" /\ TtlIndexes(ListIndexes(db, C1Name)) # {}]
    /\ hpc' = [hpc EXCEPT ![h] = "insert"]
    /\ UNCHANGED nextId
    /\ InsFrame

\* lines 210-240: created_at is stamped, the document inserted and the
\* acknowledgment (or the error response) sent
InsInsert(h) ==
    /\ hpc[h] = "insert"
    /\ LET m == hloc[h].msg
       IN  IF database # "none" /\ Reach(FALSE)
           THEN /\ db' = StoreInsertOne(db, m.collection.v, NewDoc(nextId, m.data.v))
                /\ nextId' = nextId + 1
                /\ hloc' = [hloc EXCEPT ![h].sent = <<InsertSuccess(m, nextId)>>]
           ELSE /\ UNCHANGED <<db, nextId>>
                /\ hloc' = [hloc EXCEPT ![h].sent = <<InsertError(m)>>]
    /\ hpc' = [hpc EXCEPT ![h] = "done"]
    /\ InsFrame

NextIns == \E h \in Handlers : InsListIndexes(h) \/ InsReconcile(h) \/ InsInsert(h)

SpecIns == InitIns /\ [][NextIns]_vars

AllInserted == \A h \in Handlers : hpc[h] = "done"

\* C8: once MaxHandlers concurrent insert_one handlers on a collection that
\* did not exist have all finished, whatever the interleaving of their
\* list-indexes, create-index and insert steps, the collection has exactly one
\* TTL index on created_at, with the configured expiry, and holds one
\* document per command, each acknowledged with its own identifier.
C8_ConcurrentInserts ==
    AllInserted =>
        /\ TtlIndexes(ListIndexes(db, C1Name)) =
              {TtlIdx(TtlIndexName, data_ttl_days * SecondsPerDay)}
        /\ Len(StoreFind(db, C1Name)) = MaxHandlers
        /\ \A h \in Handlers :
              /\ Len(hloc[h].sent) = 1
              /\ hloc[h].sent[1].payload.status = "success"
              /\ \E i \in 1..Len(StoreFind(db, C1Name)) :
                    StoreFind(db, C1Name)[i].id = hloc[h].sent[1].payload.inserted_id.v
        /\ \A i, j \in 1..Len(StoreFind(db, C1Name)) :
              StoreFind(db, C1Name)[i].id = StoreFind(db, C1Name)[j].id => i = j

\* every handler listed the indexes before any of them created the index, so
\* all but one issued create_index for an index that already existed
C8_Witness ==
    /\ AllInserted
    /\ Cardinality({h \in Handlers : hloc[h].raced}) = MaxHandlers - 1
    /\ \A h \in Handlers : hloc[h].indexes = {}

(***************************************************************************)
(* SpecBackup: start() and stop() called in sequence by one thread, the    *)
(* backup worker threads they leave behind, and backup_database requests   *)
(* handled meanwhile.  _perform_backup runs in steps: the listing of the   *)
(* collections, the export of one collection, the notification.            *)
(***************************************************************************)
MaxRequests == 1     \* backup_database requests handled in SpecBackup

Requests == 1..MaxRequests

Worker(i) == <<"worker", i>>

Request(k) == <<"request", k>>

OneDoc == Put(EmptyDb, C1Name, [docs |-> <<NewDoc(0, "d1")>>,
                                indexes |-> {IdIndex, TtlIdx(TtlIndexName, 604800)}])

\* the store a backup exports: two collections, so that an export can fail
\* after an artifact of the snapshot has been written
TwoColls == Put(OneDoc, <<"c2">>, EmptyColl)

InitBackup ==
    /\ connected = FALSE
    /\ client = "none"
    /\ database = "none"
    /\ status = "CREATED"
    /\ backup_running = FALSE
    /\ backup_thread = 0
    /\ data_ttl_days = DefaultRetention
    /\ db = TwoColls
    /\ storeUp \in BOOLEAN
    /\ nextId = 1
    /\ files = NoFiles
    /\ clock = 0
    /\ cur = NoMsg
    /\ outbox = <<>>
    /\ storeLog = <<>>
    /\ ttlLog = <<>>
    /\ hpc = [k \in Requests |-> "waiting"]
    /\ hloc = NoThreads
    /\ workers = <<>>
    /\ mpc = "idle"
    /\ running = NoThreads

BkFrame == UNCHANGED <<data_ttl_days, db, storeUp, nextId, cur, storeLog, ttlLog, hloc>>

\* start(), lines 68-80, up to the end of the connection attempt (lines
\* 102-112, 121-124); super().start() is taken to succeed
StartConnect ==
    /\ mpc = "idle"
    /\ Len(workers) < MaxWorkers
    /\ client' = "open"
    /\ IF storeUp
       THEN /\ database' = "open"
            /\ connected' = TRUE
            /\ status' = status
            /\ mpc' = "start_backup"
       ELSE /\ database' = database
            /\ connected' = FALSE
            /\ status' = "ERROR"
            /\ mpc' = "idle"
    /\ UNCHANGED <<backup_running, backup_thread, workers, running, hpc, files, clock, outbox>>
    /\ BkFrame

\* _start_backup (lines 133-139) and the rest of start() (lines 75-77)
StartBackup ==
    /\ mpc = "start_backup"
    /\ backup_running' = TRUE
    /\ workers' = Append(workers, [pc |-> "loop", preempted |-> FALSE, acted |-> FALSE])
    /\ backup_thread' = Len(workers) + 1
    /\ status' = "RUNNING"
    /\ mpc' = "started"
    /\ UNCHANGED <<connected, client, database, running, hpc, files, clock, outbox>>
    /\ BkFrame

\* stop() -> _stop_backup, line 143.  A worker asleep at this moment has its
\* pending cycle marked as pre-empted.
StopFlag ==
    /\ mpc = "started"
    /\ backup_running' = FALSE
    /\ workers' = [i \in 1..Len(workers) |->
                      IF workers[i].pc \in {"sleeping", "woke"}
                      THEN [workers[i] EXCEPT !.preempted = TRUE]
                      ELSE workers[i]]
    /\ mpc' = "joining"
    /\ UNCHANGED <<connected, client, database, status, backup_thread, running, hpc, files,
                   clock, outbox>>
    /\ BkFrame

\* lines 144-145: join(timeout=5) returns when the latest worker has exited
\* or when five seconds have passed, whichever comes first
StopJoin ==
    /\ mpc = "joining"
    /\ mpc' = "disconnecting"
    /\ UNCHANGED <<connected, client, database, status, backup_running, backup_thread,
                   workers, running, hpc, files, clock, outbox>>
    /\ BkFrame

\* _disconnect_database, lines 126-131
StopDisconnect ==
    /\ mpc = "disconnecting"
    /\ client' = "closed"
    /\ database' = IF database = "none" THEN "none" ELSE "closed"
    /\ connected' = FALSE
    /\ mpc' = "stopping_node"
    /\ UNCHANGED <<status, backup_running, backup_thread, workers, running, hpc, files, clock,
                   outbox>>
    /\ BkFrame

\* line 86: super().stop(), the node runtime's stop, taken to mark the node
\* stopped
StopNode ==
    /\ mpc = "stopping_node"
    /\ status' = "STOPPED"
    /\ mpc' = "idle"
    /\ UNCHANGED <<connected, client, database, backup_running, backup_thread, workers,
                   running, hpc, files, clock, outbox>>
    /\ BkFrame

\* the executions of _perform_backup under way, by the thread running them
Executors == {Worker(i) : i \in 1..Len(workers)} \cup {Request(k) : k \in Requests}

\* _perform_backup entered, line 160
Entered == [phase |-> "begin", snap |-> <<>>, todo |-> {}, at |-> <<>>]

Without(f, k) == [x \in DOMAIN f \ {k} |-> f[x]]

\* the thread e wrote an artifact or sent the notification
Acted(e) ==
    IF e[1] = "worker" THEN [workers EXCEPT ![e[2]].acted = TRUE] ELSE workers

\* _perform_backup returned to the thread e: the worker goes back to line
\* 150, the handler thread ends
Ended(e, w) ==
    /\ running' = Without(running, e)
    /\ IF e[1] = "worker"
       THEN /\ workers' = [w EXCEPT ![e[2]].pc = "loop"]
            /\ hpc' = hpc
       ELSE /\ workers' = w
            /\ hpc' = [hpc EXCEPT ![e[2]] = "done"]

\* line 150: while self.backup_running, then line 152 time.sleep
WLoop(i) ==
    /\ workers[i].pc = "loop"
    /\ workers' = [workers EXCEPT ![i] =
                      IF backup_running
                      THEN [pc |-> "sleeping", preempted |-> FALSE, acted |-> FALSE]
                      ELSE [@ EXCEPT !.pc = "exited"]]
    /\ UNCHANGED <<svcVars, mpc, running, hpc, files, clock, outbox>>
    /\ BkFrame

\* line 152: the sleep is over
WWake(i) ==
    /\ workers[i].pc = "sleeping"
    /\ workers' = [workers EXCEPT ![i].pc = "woke"]
    /\ UNCHANGED <<svcVars, mpc, running, hpc, files, clock, outbox>>
    /\ BkFrame

\* lines 153-154: if self.backup_running: self._perform_backup()
WRecheck(i) ==
    /\ workers[i].pc = "woke"
    /\ IF backup_running
       THEN /\ workers' = [workers EXCEPT ![i].pc = "backup"]
            /\ running' = Put(running, Worker(i), Entered)
       ELSE /\ workers' = [workers EXCEPT ![i].pc = "loop"]
            /\ running' = running
    /\ UNCHANGED <<svcVars, mpc, hpc, files, clock, outbox>>
    /\ BkFrame

\* _handle_backup, lines 454-456, on the thread the transport dispatched it on
RequestBackup(k) ==
    /\ hpc[k] = "waiting"
    /\ hpc' = [hpc EXCEPT ![k] = "backup"]
    /\ running' = Put(running, Request(k), Entered)
    /\ UNCHANGED <<svcVars, mpc, workers, files, clock, outbox>>
    /\ BkFrame

\* lines 161-169: the snapshot name and list_collection_names(); an exception
\* ends the backup at line 187
BkBegin(e) ==
    /\ e \in DOMAIN running
    /\ running[e].phase = "begin"
    /\ \E reopen \in Reopens :
          IF database # "none" /\ Reach(reopen)
          THEN /\ running' = [running EXCEPT ![e] = [phase |-> "export",
                                                     snap |-> SnapshotName(clock),
                                                     todo |-> DOMAIN db,
                                                     at |-> <<>>]]
               /\ UNCHANGED <<workers, hpc>>
          ELSE Ended(e, workers)
    /\ UNCHANGED <<svcVars, mpc, files, clock, outbox>>
    /\ BkFrame

\* lines 170-175 for one collection: find(), then the artifact opened with
\* mode 'w', which creates it empty or empties it
BkExport(e) ==
    /\ e \in DOMAIN running
    /\ running[e].phase = "export"
    /\ \E c \in running[e].todo, reopen \in Reopens :
          IF Reach(reopen)
          THEN /\ files' = Put(files, ArtifactStem(running[e].snap, c), <<>>)
               /\ running' = [running EXCEPT ![e].todo = @ \ {c}, ![e].phase = "dump",
                                             ![e].at = c]
               /\ workers' = Acted(e)
               /\ hpc' = hpc
          ELSE /\ files' = files
               /\ Ended(e, workers)
    /\ UNCHANGED <<svcVars, mpc, clock, outbox>>
    /\ BkFrame

\* line 176: json.dump(documents, f, default=str) writes the whole array
BkDump(e) ==
    /\ e \in DOMAIN running
    /\ running[e].phase = "dump"
    /\ files' = Put(files, ArtifactStem(running[e].snap, running[e].at),
                    StringifyAll(StoreFind(db, running[e].at)))
    /\ running' = [running EXCEPT ![e].phase = "export", ![e].at = <<>>]
    /\ UNCHANGED <<svcVars, mpc, workers, hpc, clock, outbox>>
    /\ BkFrame

\* line 176 raising OSError before the array is written out (the disk is
\* full, the file system fails): the exception ends the backup at line 187
\* and the file stays as the open left it
BkDumpFails(e) ==
    /\ e \in DOMAIN running
    /\ running[e].phase = "dump"
    /\ Ended(e, workers)
    /\ UNCHANGED <<svcVars, mpc, files, clock, outbox>>
    /\ BkFrame

\* the notification sent whatever is left to export
BkNotifyEarly(e) ==
    /\ e \in DOMAIN running
    /\ running[e].phase = "export"
    /\ outbox' = <<BackupCompleted(running[e].snap)>>
    /\ Ended(e, Acted(e))
    /\ UNCHANGED <<svcVars, mpc, files, clock>>
    /\ BkFrame

\* lines 178-185: every collection exported, the notification sent
BkNotify(e) ==
    /\ e \in DOMAIN running
    /\ running[e].phase = "export"
    /\ running[e].todo = {}
    /\ outbox' = <<BackupCompleted(running[e].snap)>>
    /\ Ended(e, Acted(e))
    /\ UNCHANGED <<svcVars, mpc, files, clock>>
    /\ BkFrame

NextBackup ==
    \/ StartConnect
    \/ StartBackup
    \/ StopFlag
    \/ StopJoin
    \/ StopDisconnect
    \/ StopNode
    \/ \E i \in 1..Len(workers) : WLoop(i)
    \/ \E i \in 1..Len(workers) : WWake(i)
    \/ \E i \in 1..Len(workers) : WRecheck(i)
    \/ \E k \in Requests : RequestBackup(k)
    \/ \E e \in Executors : BkBegin(e)
    \/ \E e \in Executors : BkExport(e)
    \/ \E e \in Executors : BkDump(e)
    \/ \E e \in Executors : BkDumpFails(e)
    \/ \E e \in Executors : BkNotify(e)
    \/ Tick

SpecBackup == InitBackup /\ [][NextBackup]_vars

\* C9: at most one backup is in flight at any time, the timer's cycles and
\* the backup_database commands counted together: no two executions of
\* _perform_backup overlap.
C9_SingleBackupInFlight == Cardinality(DOMAIN running) <= 1

\* C10: when stop is triggered while a worker sleeps ahead of a cycle it has
\* not begun, that cycle writes no backup artifact and sends no
\* backup_completed notification.
C10_PendingCyclePreempted ==
    \A i \in 1..Len(workers) : ~(workers[i].preempted /\ workers[i].acted)


\* the thread e, inside _perform_backup, still has a store call to make:
\* list_collection_names (line 169) or a find (line 172)
StoreCallsAhead(e) ==
    /\ e \in DOMAIN running
    /\ running[e].phase = "begin" \/ running[e].todo # {}

\* C11: when stop is triggered while a worker's backup is in flight, the
\* connection is closed only after that backup has completed: no worker is
\* left with a store call to make on a connection the stop path has closed,
\* the join having timed out or not.
C11_NoStoreCallAfterClose ==
    \A i \in 1..Len(workers) : StoreCallsAhead(Worker(i)) => database # "closed"


(***************************************************************************)
(* Claims about backup artifacts and restore (Spec).                       *)
(***************************************************************************)
\* this step is _handle_restore run on snapshot name n against a store it
\* reaches
RestoreStep(n) ==
    /\ cur = NoMsg
    /\ cur'.handler = "restore_database"
    /\ cur'.backup_name.has
    /\ cur'.backup_name.v = n
    /\ storeUp
    /\ database = "open"

Snapshots == {SnapshotName(t) : t \in 0..MaxClock}

Contains(docs, doc) == \E j \in 1..Len(docs) : docs[j] = doc

\* C12: documents inserted into a collection, exported by a backup, then
\* restored by that backup's snapshot name into the same-named, emptied
\* collection: the collection afterwards holds at least as many documents as
\* the artifact and each of them, identifiers and timestamps as strings.
C12_RoundTrip ==
    [][\A n \in Snapshots :
          LET s == ArtifactStem(n, C1Name)
          IN  (RestoreStep(n) /\ s \in DOMAIN files /\ StoreFind(db, C1Name) = <<>>)
              => /\ Len(StoreFind(db', C1Name)) >= Len(files[s])
                 /\ \A i \in 1..Len(files[s]) :
                       /\ Contains(StoreFind(db', C1Name), files[s][i])
                       /\ ~files[s][i].oid
                       /\ files[s][i].created_at # "datetime"]_vars

\* the collections a step created or changed
Changed == {k \in DOMAIN db' : k \notin DOMAIN db \/ db'[k] # db[k]}

\* {collection} of an artifact stem {snapshot_name}_{collection}
StripPrefix(s, n) == SubSeq(s, Len(n) + 1, Len(s))

\* C13: restore with a snapshot name recovers, from each artifact named
\* {snapshot_name}_{collection}, exactly {collection}: the artifact's
\* documents go into the collection of that name and into no other.
C13_RestoreTargetsNamedCollection ==
    [][\A n \in Snapshots :
          RestoreStep(n)
          => /\ \A k \in Changed : ArtifactStem(n, k) \in DOMAIN files
             /\ \A s \in MatchingArtifacts(files, n), j \in 1..MaxDocs :
                   j <= Len(files[s]) =>
                   Contains(StoreFind(db', StripPrefix(s, n)), files[s][j])]_vars

\* C16: restore is additive: every document a collection held before a
\* restore is still there unchanged after it, the restore issues nothing but
\* inserts, and collections no matching artifact names are left unchanged.
C16_RestoreAdditive ==
    [][\A n \in Snapshots :
          RestoreStep(n)
          => /\ \A c \in DOMAIN db :
                   /\ c \in DOMAIN db'
                   /\ \A i \in 1..Len(db[c].docs) : Contains(db'[c].docs, db[c].docs[i])
                   /\ db'[c].indexes = db[c].indexes
             /\ \A i \in 1..Len(storeLog') : storeLog'[i] = "insert_many"
             /\ \A k \in Changed : \E s \in MatchingArtifacts(files, n) :
                   s = ArtifactStem(n, k)]_vars


(***************************************************************************)
(* SpecExport: the backup procedure on a started service, run by the       *)
(* worker and by backup_database handlers, with the store going away at    *)
(* any moment.                                                             *)
(***************************************************************************)
InitExport ==
    /\ connected = TRUE
    /\ client = "open"
    /\ database = "open"
    /\ status = "RUNNING"
    /\ backup_running = TRUE
    /\ backup_thread = 1
    /\ data_ttl_days = DefaultRetention
    /\ db = TwoColls
    /\ storeUp = TRUE
    /\ nextId = 1
    /\ files = NoFiles
    /\ clock = 0
    /\ cur = NoMsg
    /\ outbox = <<>>
    /\ storeLog = <<>>
    /\ ttlLog = <<>>
    /\ hpc = [k \in Requests |-> "waiting"]
    /\ hloc = NoThreads
    /\ workers = <<[pc |-> "loop", preempted |-> FALSE, acted |-> FALSE]>>
    /\ mpc = "started"
    /\ running = NoThreads

\* the server stops answering; self.connected is left as it was
StoreOutage ==
    /\ storeUp
    /\ storeUp' = FALSE
    /\ UNCHANGED <<svcVars, db, nextId, fsVars, ioVars, ttlLog, threadVars>>

NextExport ==
    \/ \E i \in 1..Len(workers) : WLoop(i)
    \/ \E i \in 1..Len(workers) : WWake(i)
    \/ \E i \in 1..Len(workers) : WRecheck(i)
    \/ \E k \in Requests : RequestBackup(k)
    \/ \E e \in Executors : BkBegin(e)
    \/ \E e \in Executors : BkExport(e)
    \/ \E e \in Executors : BkDump(e)
    \/ \E e \in Executors : BkDumpFails(e)
    \/ \E e \in Executors : BkNotify(e)
    \/ StoreOutage
    \/ Tick

SpecExport == InitExport /\ [][NextExport]_vars

(***************************************************************************)
(* SpecNotify: on-demand backups on a node configured with backup_enabled  *)
(* false, so that no worker thread exists, on a store of one or two        *)
(* collections that goes away at any step.                                 *)
(***************************************************************************)
InitNotify ==
    /\ connected = TRUE
    /\ client = "open"
    /\ database = "open"
    /\ status = "RUNNING"
    /\ backup_running = FALSE
    /\ backup_thread = 0
    /\ data_ttl_days = DefaultRetention
    /\ db \in {OneDoc, TwoColls}
    /\ storeUp = TRUE
    /\ nextId = 1
    /\ files = NoFiles
    /\ clock = 0
    /\ cur = NoMsg
    /\ outbox = <<>>
    /\ storeLog = <<>>
    /\ ttlLog = <<>>
    /\ hpc = [k \in Requests |-> "waiting"]
    /\ hloc = NoThreads
    /\ workers = <<>>
    /\ mpc = "started"
    /\ running = NoThreads

NextNotify ==
    \/ \E k \in Requests : RequestBackup(k)
    \/ \E e \in Executors : BkBegin(e)
    \/ \E e \in Executors : BkExport(e)
    \/ \E e \in Executors : BkDump(e)
    \/ \E e \in Executors : BkDumpFails(e)
    \/ \E e \in Executors : BkNotify(e)
    \/ StoreOutage
    \/ Tick

SpecNotify == InitNotify /\ [][NextNotify]_vars

(***************************************************************************)
(* Claims about the backup procedure (SpecBackup, SpecExport, SpecNotify).             *)
(***************************************************************************)
\* the thread e leaves _perform_backup in this step
Leaves(e) == e \in DOMAIN running /\ e \notin DOMAIN running'

\* every notification names a snapshot all of whose collections are exported
NotifiedComplete ==
    \A i \in 1..Len(outbox), c \in DOMAIN db :
        ArtifactStem(outbox[i].payload.backup_completed, c) \in DOMAIN files

\* a backup that ends with a store call or a write still ahead sends nothing, and the
\* thread that ran it carries on
FailureSilent ==
    \A e \in Executors :
        (Leaves(e) /\ (StoreCallsAhead(e) \/ running[e].phase = "dump"))
        => /\ outbox' = outbox
           /\ files' = files
           /\ e[1] = "worker" => workers'[e[2]].pc = "loop"
           /\ e[1] = "request" => hpc'[e[2]] = "done"

\* C14: a backup sends {backup_completed: snapshot_name} only after every
\* enumerated collection has been exported; when an export fails in the
\* middle of a snapshot no notification is sent for it and the failure stays
\* inside the backup procedure.
C14_NotifyOnlyAfterFullExport == []NotifiedComplete /\ [][FailureSilent]_vars

\* a backup has ended after exporting one collection of two, nothing sent
C14_Witness ==
    /\ running = NoThreads
    /\ outbox = <<>>
    /\ \E n \in Snapshots :
          /\ ArtifactStem(n, C1Name) \in DOMAIN files
             \/ ArtifactStem(n, <<"c2">>) \in DOMAIN files
          /\ ~(ArtifactStem(n, C1Name) \in DOMAIN files
               /\ ArtifactStem(n, <<"c2">>) \in DOMAIN files)


\* the collections whose artifact the thread e writes in this step
Exports(e) ==
    IF e \in DOMAIN running /\ e \in DOMAIN running' /\ running[e].phase = "export"
    THEN running[e].todo \ running'[e].todo
    ELSE {}

\* C15: a snapshot is never mutated after its creation: whatever the order
\* or interleaving of scheduled and on-demand backups, two of them in the
\* same second included, no backup writes an artifact file that exists
\* already, i.e. distinct backups get distinct snapshot names.
C15_SnapshotNeverRewritten ==
    [][\A e \in Executors, c \in DOMAIN db :
          c \in Exports(e) => ArtifactStem(running[e].snap, c) \notin DOMAIN files]_vars


(***************************************************************************)
(* SpecConv: _convert_objectids applied to the documents a query returned. *)
(* A value is [kind, key, items]: kind is "oid" (ObjectId), "dt"           *)
(* (datetime), "str", "dict" or "list"; key is the field name it is stored *)
(* under ("" for a document and for a list element); items are the values  *)
(* of a dict or the elements of a list.                                    *)
(***************************************************************************)
MaxDepth == 2        \* containers nested inside a document's field

Leaf(kind, key) == [kind |-> kind, key |-> key, items |-> <<>>]

Keyed(v, key) == [v EXCEPT !.key = key]

RECURSIVE Values(_)
\* the values of nesting depth at most d, containers holding one value
Values(d) ==
    IF d = 0
    THEN {Leaf(k, "") : k \in {"oid", "dt", "str"}}
    ELSE Values(d - 1)
         \cup {[kind |-> "list", key |-> "", items |-> <<v>>] : v \in Values(d - 1)}
         \cup {[kind |-> "dict", key |-> "", items |-> <<Keyed(v, "a")>>] : v \in Values(d - 1)}

\* the documents of a result set: field f1 holds any value, an optional
\* field f2 a scalar
Documents ==
    {[kind |-> "dict", key |-> "", items |-> <<Keyed(v, "f1")>>] : v \in Values(MaxDepth)}
    \cup {[kind |-> "dict", key |-> "", items |-> <<Keyed(v, "f1"), Keyed(w, "f2")>>]
          : v \in Values(MaxDepth), w \in Values(0)}

RECURSIVE ConvertObjectIds(_), ConvertValue(_)
\* lines 445-451: what the loop over doc.items() does with one value
ConvertValue(v) ==
    IF v.kind \in {"oid", "dt"}
    THEN [v EXCEPT !.kind = "str"]                       \* str(value), isoformat()
    ELSE IF v.kind = "dict"
    THEN ConvertObjectIds(<<v>>)[1]
    ELSE IF v.kind = "list"
    THEN [v EXCEPT !.items = ConvertObjectIds(v.items)]
    ELSE v

\* lines 442-451: for doc in documents: if isinstance(doc, dict): ...
ConvertObjectIds(documents) ==
    [i \in 1..Len(documents) |->
        IF documents[i].kind = "dict"
        THEN [documents[i] EXCEPT
                 !.items = [j \in 1..Len(documents[i].items) |->
                               ConvertValue(documents[i].items[j])]]
        ELSE documents[i]]

InitConv ==
    /\ connected = TRUE
    /\ client = "open"
    /\ database = "open"
    /\ status = "RUNNING"
    /\ backup_running = TRUE
    /\ backup_thread = 1
    /\ data_ttl_days = DefaultRetention
    /\ db = EmptyDb
    /\ storeUp = TRUE
    /\ nextId = 0
    /\ files = NoFiles
    /\ clock = 0
    /\ cur = NoMsg
    /\ outbox = <<>>
    /\ storeLog = <<>>
    /\ ttlLog = <<>>
    /\ hpc = "results"
    /\ \E d \in Documents : hloc = [results |-> <<d>>, query_results |-> <<>>]
    /\ workers = <<>>
    /\ mpc = "idle"
    /\ running = NoThreads

\* lines 288-295: self._convert_objectids(results), then the list is put in
\* the response payload
Sanitise ==
    /\ hpc = "results"
    /\ hpc' = "converted"
    /\ hloc' = [hloc EXCEPT !.query_results = ConvertObjectIds(hloc.results)]
    /\ UNCHANGED <<svcVars, storeVars, fsVars, ioVars, ttlLog, workers, mpc, running>>

NextConv == Sanitise

SpecConv == InitConv /\ [][NextConv]_vars

RECURSIVE HasStoreValue(_)
\* an ObjectId or a datetime at any depth of v
HasStoreValue(v) ==
    \/ v.kind \in {"oid", "dt"}
    \/ \E j \in 1..Len(v.items) : HasStoreValue(v.items[j])

RECURSIVE SameShape(_, _)
\* w is v with some ObjectId / datetime values replaced by strings: the same
\* field names, the same number of elements
SameShape(v, w) ==
    /\ w.key = v.key
    /\ w.kind = v.kind \/ (v.kind \in {"oid", "dt"} /\ w.kind = "str")
    /\ Len(w.items) = Len(v.items)
    /\ \A j \in 1..Len(v.items) : SameShape(v.items[j], w.items[j])

\* C17: after _convert_objectids no ObjectId and no datetime is left at any
\* depth of the result, elements of lists and of lists inside lists
\* included; each is replaced by a string, and the field names, the number
\* of documents and the number of list elements are as before.
C17_NoStoreValueLeft ==
    hpc = "converted"
    => /\ Len(hloc.query_results) = Len(hloc.results)
       /\ \A i \in 1..Len(hloc.results) :
             /\ ~HasStoreValue(hloc.query_results[i])
             /\ SameShape(hloc.results[i], hloc.query_results[i])


(***************************************************************************)
(* SpecPage: the cursor _handle_query_data builds (find, sort, skip,       *)
(* limit) run on a dataset, for up to MaxPages queries with the same       *)
(* filter and sort.  A document is [id, k]; the filter is {} ("all") or    *)
(* {"k": 1} ("k1"); the sort is [] ("none"), [("k", 1)] ("asc") or         *)
(* [("k", -1)] ("desc").                                                   *)
(***************************************************************************)
MaxN == 3            \* documents in the collection queried
MaxPages == 2        \* queries run on it

Datasets ==
    UNION {{[i \in 1..n |-> [id |-> i, k |-> f[i]]] : f \in [1..n -> {1, 2}]} : n \in 0..MaxN}

Matches(doc, filter) == filter = "all" \/ doc.k = 1

\* collection.find(query_filter), line 276: the matching documents in
\* natural order
Find(docs, filter) == SelectSeq(docs, LAMBDA d : Matches(d, filter))

InOrder(docs, sort) ==
    \A i, j \in 1..Len(docs) :
        i < j => IF sort = "asc" THEN docs[i].k <= docs[j].k ELSE docs[i].k >= docs[j].k

\* lines 279-282: the cursor is sorted only when sort_spec is not empty; the
\* store returns documents with equal sort keys in any order
Sorted(docs, sort) ==
    IF sort = "none"
    THEN {docs}
    ELSE {p \in {[i \in 1..Len(docs) |-> docs[o[i]]] : o \in Orders(1..Len(docs))} :
            InOrder(p, sort)}

InitPage ==
    /\ connected = TRUE
    /\ client = "open"
    /\ database = "open"
    /\ status = "RUNNING"
    /\ backup_running = TRUE
    /\ backup_thread = 1
    /\ data_ttl_days = DefaultRetention
    /\ db = EmptyDb
    /\ storeUp = TRUE
    /\ nextId = 0
    /\ files = NoFiles
    /\ clock = 0
    /\ cur = NoMsg
    /\ outbox = <<>>
    /\ storeLog = <<>>
    /\ ttlLog = <<>>
    /\ hpc = "query"
    /\ \E docs \in Datasets, filter \in {"all", "k1"}, sort \in {"none", "asc", "desc"} :
          hloc = [docs |-> docs, filter |-> filter, sort |-> sort, pages |-> <<>>]
    /\ workers = <<>>
    /\ mpc = "idle"
    /\ running = NoThreads

\* lines 269-299: one query_data with the given skip and limit
RunQuery ==
    /\ Len(hloc.pages) < MaxPages
    /\ \E skip \in 0..MaxN, limit \in 0..MaxN :
          \E cursor \in Sorted(Find(hloc.docs, hloc.filter), hloc.sort) :
             LET results == Paginate(cursor, skip, limit)
             IN  hloc' = [hloc EXCEPT !.pages =
                             Append(@, [skip |-> skip, limit |-> limit,
                                        query_results |-> results,
                                        count |-> Len(results)])]
    /\ UNCHANGED <<svcVars, storeVars, fsVars, ioVars, ttlLog, hpc, workers, mpc, running>>

NextPage == RunQuery

SpecPage == InitPage /\ [][NextPage]_vars

\* the page lies inside the filtered dataset: S + L <= N
InRange(p) == p.skip + p.limit <= Len(Find(hloc.docs, hloc.filter))

\* p is the documents at positions [S, S+L) of the filtered, sorted sequence
ExactPage(p) ==
    /\ p.count = p.limit
    /\ \E s \in Sorted(Find(hloc.docs, hloc.filter), hloc.sort) :
          p.query_results = SubSeq(s, p.skip + 1, p.skip + p.limit)

Disjoint(p, q) ==
    (p.skip + p.limit <= q.skip \/ q.skip + q.limit <= p.skip)
    => \A i \in 1..Len(p.query_results), j \in 1..Len(q.query_results) :
          p.query_results[i].id # q.query_results[j].id

\* C18: for a dataset of N documents, any filter and sort, and limit L and
\* skip S with S+L <= N, query_data returns exactly the documents at
\* positions [S, S+L) of the filtered, sorted sequence, count is L, and two
\* pages whose ranges do not overlap share no document.
C18_Pagination ==
    \A a, b \in 1..Len(hloc.pages) :
        (InRange(hloc.pages[a]) /\ InRange(hloc.pages[b]))
        => /\ ExactPage(hloc.pages[a])
           /\ a # b => Disjoint(hloc.pages[a], hloc.pages[b])


(***************************************************************************)
(* Claims about the connected state (Spec, SpecBackup).                    *)
(***************************************************************************)
\* C19: no operation is issued to the store while the service is not
\* connected: every handler and every backup / restore path tests the
\* connected flag first and, when it is false, fails without a store call.
C19_NoStoreCallWhenDisconnected == ~connected => storeLog = <<>>


\* C20: the service never claims to be running while disconnected: status
\* is RUNNING only with the store connection established, a failed
\* connection attempt leaves status ERROR, connected false and no backup
\* worker started, and in every reachable state status = RUNNING implies
\* connected.
C20_RunningImpliesConnected ==
    /\ status = "RUNNING" => connected
    /\ status = "ERROR" => ~connected /\ ~backup_running


(***************************************************************************)
(* Claims about reconciliation failures and parameter checks (Spec).       *)
(***************************************************************************)
\* this step is an insert_one carrying collection and data, handled on a
\* connected service, whose call of _ensure_ttl_index returns False
InsertWithFailedTtl ==
    /\ cur = NoMsg
    /\ CommandOf(cur') = "insert_one"
    /\ TruthyName(cur'.collection)
    /\ TruthyStr(cur'.data)
    /\ connected
    /\ ~EnsureTtlIndex(connected, storeUp, db, cur'.collection.v, data_ttl_days).ret

\* the step inserted the document once and answered success with its
\* identifier as a string
InsertedAndAcknowledged ==
    LET c == cur'.collection.v
    IN  /\ StoreFind(db', c) = Append(StoreFind(db, c), NewDoc(nextId, cur'.data.v))
        /\ Len(outbox') = 1
        /\ outbox'[1].payload.status = "success"
        /\ outbox'[1].payload.inserted_id = StrOf(nextId)

\* C21 as stated: whenever _ensure_ttl_index fails during an insert_one on
\* a connected service, the document is still inserted exactly once and the
\* caller receives a success response with the inserted identifier as a
\* string.
C21_TtlFailureNeverFailsInsert ==
    [][InsertWithFailedTtl => InsertedAndAcknowledged]_vars

\* C21 amended: when _ensure_ttl_index fails during an insert_one on a
\* connected service whose store is reachable for the insert, the document
\* is inserted exactly once and the caller receives a success response with
\* the inserted identifier as a string.
C21_TtlFailureAloneNeverFailsInsert ==
    [][(InsertWithFailedTtl /\ storeUp) => InsertedAndAcknowledged]_vars

\* an insert was acknowledged on a collection whose created_at_1 index is
\* not a TTL index, which the reconciler cannot repair
C21_Witness ==
    /\ CommandOf(cur) = "insert_one"
    /\ connected
    /\ storeUp
    /\ PlainIdx(TtlIndexName) \in ListIndexes(db, C1Name)
    /\ Len(StoreFind(db, C1Name)) = 1
    /\ Len(outbox) = 1
    /\ outbox[1].payload.status = "success"


\* the query just handled asked for a limit that is not positive or for a
\* negative skip
BadPage(m) ==
    \/ m.limit.has /\ m.limit.int /\ m.limit.v <= 0
    \/ m.skip.has /\ m.skip.int /\ m.skip.v < 0

\* C22: a query whose limit is zero or negative, or whose skip is negative,
\* is rejected with a validation_error response before any store access; it
\* is never run against the store with those values.
C22_BadPageRejected ==
    (IsQuery(cur) /\ BadPage(cur))
    => /\ storeLog = <<>>
       /\ Len(outbox) = 1
       /\ outbox[1].payload.status = "error"
       /\ outbox[1].payload.error_type = "validation_error"


(***************************************************************************)
(* SpecInsert: insert_one commands handled one after the other on a        *)
(* service in any stage of its life, the collection starting from every    *)
(* index layout.                                                           *)
(***************************************************************************)
InitInsert ==
    /\ \E l \in Lifecycles :
          /\ connected = l.connected
          /\ client = l.client
          /\ database = l.database
          /\ status = l.status
          /\ backup_running = l.backup_running
    /\ backup_thread = 0
    /\ data_ttl_days \in Retentions
    /\ db \in StartDbs
    /\ storeUp \in BOOLEAN
    /\ nextId = 0
    /\ files = NoFiles
    /\ clock = 0
    /\ cur = NoMsg
    /\ outbox = <<>>
    /\ storeLog = <<>>
    /\ ttlLog = <<>>
    /\ hpc = NoThreads
    /\ hloc = NoThreads
    /\ workers = <<>>
    /\ mpc = "idle"
    /\ running = NoThreads

NextInsert ==
    \/ HandleInsertOne
    \/ Returned

SpecInsert == InitInsert /\ [][NextInsert]_vars


(***************************************************************************)
(* Claims about create_collection and the reconciler's result               *)
(* (Spec, SpecTTL).                                                        *)
(***************************************************************************)
\* collection c exists with exactly one TTL index, expiring after the
\* configured retention
HasPolicyIndex(d, c) ==
    /\ c \in DOMAIN d
    /\ TtlIndexes(ListIndexes(d, c)) = {TtlIdx(TtlIndexName, ExpireAfterSeconds(data_ttl_days))}

\* C23: create_collection is idempotent: a command {command, collection},
\* the payload shape of the interface, succeeds whether or not the
\* collection exists, and after one call or any number of calls the
\* collection exists with exactly one TTL index whose expiry is
\* retention_days * 86400.
C23_CreateCollectionIdempotent ==
    (/\ CommandOf(cur) = "create_collection"
     /\ cur.collection = Opt(C1Name)
     /\ ~cur.collection_name.has
     /\ connected /\ storeUp /\ database = "open")
    => HasPolicyIndex(db, C1Name)


(***************************************************************************)
(* Claims about the artifacts a backup leaves (SpecExport)                 *)
(***************************************************************************)

\* no backup of the snapshot n is still under way
SnapshotEnded(n) == \A e \in DOMAIN running : running[e].snap # n

\* C24: once the backups of a snapshot have ended, by success or by a failure
\* while a collection was being written, every artifact of that snapshot that
\* exists holds the whole serialised document array of its collection
C24_ArtifactCompleteOrAbsent ==
    \A t \in 0..MaxClock : \A c \in DOMAIN db :
        (/\ SnapshotEnded(SnapshotName(t))
         /\ ArtifactStem(SnapshotName(t), c) \in DOMAIN files)
        => files[ArtifactStem(SnapshotName(t), c)] = StringifyAll(StoreFind(db, c))


(***************************************************************************)
(* Claims about the worker threads across stop and start (SpecBackup)      *)
(***************************************************************************)

\* the worker threads that have not returned from _backup_worker and that
\* the flag lets carry on with cycles
Runnable == {i \in 1..Len(workers) : workers[i].pc # "exited" /\ backup_running}

\* stop() has been called since the worker i was started
StoppedSince(i) == i < Len(workers) \/ mpc # "started"

\* the worker i enters _perform_backup in this step
BeginsCycle(i) == Worker(i) \notin DOMAIN running /\ Worker(i) \in DOMAIN running'

AtMostOneRunnable == Cardinality(Runnable) <= 1

NoCycleAfterStop ==
    \A i \in 1..Len(workers) : StoppedSince(i) => ~BeginsCycle(i)

\* C26: after any sequence of start and stop calls, a start that follows a
\* stop whose join timed out on a sleeping worker included, at most one
\* backup worker is alive that can still run backup cycles, and a worker
\* started before a stop begins no backup cycle after that stop.
C26_OneWorkerAcrossRestarts == []AtMostOneRunnable /\ [][NoCycleAfterStop]_vars

====
